---- MODULE Spec2Model ----
(***************************************************************************)
(* Brocklayers: the G-code post-processor of brocklayers.py.               *)
(*                                                                         *)
(* process_gcode reads the lines of a G-code file, scans them once and     *)
(* overwrites the file with the rewritten lines.  Lines are TLA+ strings   *)
(* (sequences of characters); Python floats are IEEE-754 binary64 values,  *)
(* kept as sign, 53-bit significand and binary exponent, with the          *)
(* significand held in base-2^15 limbs.  The arithmetic is written as      *)
(* functions, so that an argument is evaluated once.                       *)
(***************************************************************************)
EXTENDS Integers, Sequences, FiniteSets, TLC

(***************************************************************************)
(* Natural numbers of any size: little-endian sequences of limbs.          *)
(***************************************************************************)
LimbBits == 15
Limb == 32768
Nats == Seq(Nat)

Pow2[n \in Nat] == IF n = 0 THEN 1 ELSE 2 * Pow2[n - 1]

BigNorm[a \in Nats] ==
    IF a = <<>> THEN <<>>
    ELSE IF a[Len(a)] = 0 THEN BigNorm[SubSeq(a, 1, Len(a) - 1)]
    ELSE a

BigFromInt[n \in Nat] ==
    IF n = 0 THEN <<>> ELSE <<n % Limb>> \o BigFromInt[n \div Limb]

BigToInt[a \in Nats] == IF a = <<>> THEN 0 ELSE a[1] + Limb * BigToInt[Tail(a)]

BigRest[a \in Nats] == IF a = <<>> THEN <<>> ELSE Tail(a)
BigLow[a \in Nats] == IF a = <<>> THEN 0 ELSE a[1]

BigAddC[a \in Nats, b \in Nats, c \in Nat] ==
    IF a = <<>> /\ b = <<>> THEN (IF c = 0 THEN <<>> ELSE <<c>>)
    ELSE LET x == BigLow[a] + BigLow[b] + c
         IN  <<x % Limb>> \o BigAddC[BigRest[a], BigRest[b], x \div Limb]

BigAdd[a \in Nats, b \in Nats] == BigAddC[a, b, 0]

\* a - b - c for a >= b + c
BigSubC[a \in Nats, b \in Nats, c \in Nat] ==
    IF a = <<>> THEN <<>>
    ELSE LET x == a[1] - BigLow[b] - c
         IN  IF x < 0 THEN <<x + Limb>> \o BigSubC[Tail(a), BigRest[b], 1]
             ELSE <<x>> \o BigSubC[Tail(a), BigRest[b], 0]

BigSub[a \in Nats, b \in Nats] == BigNorm[BigSubC[a, b, 0]]

\* -1, 0 or 1 as a < b, a = b or a > b (both normalised)
BigCmpAt[a \in Nats, b \in Nats, i \in Nat] ==
    IF i = 0 THEN 0
    ELSE IF a[i] < b[i] THEN -1
    ELSE IF a[i] > b[i] THEN 1
    ELSE BigCmpAt[a, b, i - 1]

BigCmp[a \in Nats, b \in Nats] ==
    IF Len(a) < Len(b) THEN -1
    ELSE IF Len(a) > Len(b) THEN 1
    ELSE BigCmpAt[a, b, Len(a)]

\* a * k + c for 0 <= k < Limb
BigMulSmall[a \in Nats, k \in Nat, c \in Nat] ==
    IF a = <<>> THEN BigFromInt[c]
    ELSE LET x == a[1] * k + c
         IN  <<x % Limb>> \o BigMulSmall[Tail(a), k, x \div Limb]

BigMulRaw[a \in Nats, b \in Nats] ==
    IF b = <<>> \/ a = <<>> THEN <<>>
    ELSE BigAdd[BigMulSmall[a, b[1], 0], <<0>> \o BigMulRaw[a, Tail(b)]]

BigMul[a \in Nats, b \in Nats] == BigNorm[BigMulRaw[a, b]]

\* quotient and remainder of a by k, 0 < k < Limb
BigDivSmallRaw[a \in Nats, k \in Nat] ==
    IF a = <<>> THEN [q |-> <<>>, r |-> 0]
    ELSE LET hi == BigDivSmallRaw[Tail(a), k]
             cur == hi.r * Limb + a[1]
         IN  [q |-> <<cur \div k>> \o hi.q, r |-> cur % k]

BigDivSmall[a \in Nats, k \in Nat] ==
    LET d == BigDivSmallRaw[a, k] IN [q |-> BigNorm[d.q], r |-> d.r]

Zeros[n \in Nat] == IF n = 0 THEN <<>> ELSE <<0>> \o Zeros[n - 1]

BigShl[a \in Nats, n \in Nat] ==
    IF a = <<>> THEN <<>>
    ELSE BigNorm[Zeros[n \div LimbBits] \o BigMulSmall[a, Pow2[n % LimbBits], 0]]

BigShr[a \in Nats, n \in Nat] ==
    IF Len(a) <= n \div LimbBits THEN <<>>
    ELSE BigDivSmall[SubSeq(a, n \div LimbBits + 1, Len(a)), Pow2[n % LimbBits]].q

BitLenSmall[n \in Nat] == IF n = 0 THEN 0 ELSE 1 + BitLenSmall[n \div 2]

BigBitLen[a \in Nats] ==
    IF a = <<>> THEN 0 ELSE LimbBits * (Len(a) - 1) + BitLenSmall[a[Len(a)]]

BigIsOdd[a \in Nats] == a # <<>> /\ a[1] % 2 = 1

\* largest q <= qd with q * d <= r
BigFitDigit[d \in Nats, r \in Nats, qd \in Nat] ==
    IF BigCmp[BigMulSmall[d, qd, 0], r] > 0 THEN BigFitDigit[d, r, qd - 1] ELSE qd

\* one quotient limb of r by d, where r < d * Limb, d has at least two limbs
\* and its top limb is at least Limb / 2: estimated from the top limbs
BigQuotDigit[d \in Nats, r \in Nats] ==
    LET n == Len(d)
        top == (IF Len(r) > n THEN r[n + 1] ELSE 0) * Limb + r[n]
        est == top \div d[n]
    IN  IF Len(r) < n THEN 0
        ELSE BigFitDigit[d, r, IF est > Limb - 1 THEN Limb - 1 ELSE est]

\* r - d * qd, with qd
BigTakeDigit[d \in Nats, r \in Nats, qd \in Nat] ==
    [qd |-> qd, r |-> BigSub[r, BigMulSmall[d, qd, 0]]]

\* long division of the limbs i, i-1, ..., 1 of n by d, running remainder r
BigDivLimbs[n \in Nats, d \in Nats, i \in Nat, r \in Nats] ==
    IF i = 0 THEN [q |-> <<>>, r |-> r]
    ELSE LET r2 == BigNorm[<<n[i]>> \o r]
             st == BigTakeDigit[d, r2, BigQuotDigit[d, r2]]
             rest == BigDivLimbs[n, d, i - 1, st.r]
         IN  [q |-> rest.q \o <<st.qd>>, r |-> rest.r]

BigDivNorm[n \in Nats, d \in Nats, sh \in Nat] ==
    LET qr == BigDivLimbs[n, d, Len(n), <<>>]
    IN  [q |-> BigNorm[qr.q], r |-> BigShr[qr.r, sh]]

\* quotient and remainder of n by d, d # 0
BigDivMod[n \in Nats, d \in Nats] ==
    IF Len(d) = 1
    THEN LET s == BigDivSmall[n, d[1]] IN [q |-> s.q, r |-> BigFromInt[s.r]]
    ELSE LET sh == LimbBits - BitLenSmall[d[Len(d)]]
         IN  BigDivNorm[BigShl[n, sh], BigShl[d, sh], sh]

BigPow10[k \in Nat] == IF k = 0 THEN <<1>> ELSE BigMulSmall[BigPow10[k - 1], 10, 0]

\* q + 1 when the remainder rem of a division by 2 * half asks for it
\* (round half to even; `sticky': the dividend was just above its value)
BigRoundUp[q \in Nats, c \in Int, sticky \in BOOLEAN] ==
    IF c > 0 \/ (c = 0 /\ (sticky \/ BigIsOdd[q])) THEN BigAdd[q, <<1>>] ELSE q

BigRoundQuot[n \in Nats, q \in Nats, k \in Nat, sticky \in BOOLEAN] ==
    BigRoundUp[q, BigCmp[BigSub[n, BigShl[q, k]], BigShl[<<1>>, k - 1]], sticky]

\* n / 2^k rounded to the nearest integer, ties to even
BigRoundShr[n \in Nats, k \in Nat, sticky \in BOOLEAN] ==
    IF k = 0 THEN n ELSE BigRoundQuot[n, BigShr[n, k], k, sticky]

(***************************************************************************)
(* binary64: the value of [neg, m, e] is (-1)^neg * m * 2^e with           *)
(* 2^52 <= m < 2^53, or m = <<>> for a zero.                               *)
(***************************************************************************)
MantBits == 53
Binary64 == [neg : BOOLEAN, m : Nats, e : Int]

FZero(neg) == [neg |-> neg, m |-> <<>>, e |-> 0]

\* m has MantBits bits, or is 2^MantBits after a rounding
FPack[neg \in BOOLEAN, m \in Nats, e \in Int] ==
    IF BigBitLen[m] > MantBits THEN [neg |-> neg, m |-> BigShr[m, 1], e |-> e + 1]
    ELSE [neg |-> neg, m |-> m, e |-> e]

FRoundBits[neg \in BOOLEAN, n \in Nats, sticky \in BOOLEAN, x \in Int, bl \in Nat] ==
    IF bl <= MantBits
    THEN [neg |-> neg, m |-> BigShl[n, MantBits - bl], e |-> x - (MantBits - bl)]
    ELSE FPack[neg, BigRoundShr[n, bl - MantBits, sticky], x + (bl - MantBits)]

\* nearest binary64 (ties to even) of n * 2^x, or of a value just above it
\* when `sticky'
RoundBig[neg \in BOOLEAN, n \in Nats, sticky \in BOOLEAN, x \in Int] ==
    IF n = <<>> THEN FZero(neg) ELSE FRoundBits[neg, n, sticky, x, BigBitLen[n]]

QuotRem == [q : Nats, r : Nats]

FRoundQuot[neg \in BOOLEAN, qr \in QuotRem, x \in Int] ==
    RoundBig[neg, qr.q, qr.r # <<>>, x]

FRoundRatBy[neg \in BOOLEAN, n \in Nats, d \in Nats, x \in Int, s \in Int] ==
    IF s >= 0 THEN FRoundQuot[neg, BigDivMod[BigShl[n, s], d], x - s]
    ELSE FRoundQuot[neg, BigDivMod[n, BigShl[d, 0 - s]], x - s]

\* nearest binary64 of (n / d) * 2^x
RoundRat[neg \in BOOLEAN, n \in Nats, d \in Nats, x \in Int] ==
    IF n = <<>> THEN FZero(neg)
    ELSE FRoundRatBy[neg, n, d, x, (MantBits + 2) - (BigBitLen[n] - BigBitLen[d])]

\* x * 2^e and y * 2^e with the signs xn and yn
FAddAligned[xn \in BOOLEAN, x \in Nats, yn \in BOOLEAN, y \in Nats, e \in Int, c \in Int] ==
    IF xn = yn THEN RoundBig[xn, BigAdd[x, y], FALSE, e]
    ELSE IF c = 0 THEN FZero(FALSE)
    ELSE IF c > 0 THEN RoundBig[xn, BigSub[x, y], FALSE, e]
    ELSE RoundBig[yn, BigSub[y, x], FALSE, e]

FAddAt[a \in Binary64, x \in Nats, b \in Binary64, y \in Nats, e \in Int] ==
    FAddAligned[a.neg, x, b.neg, y, e, BigCmp[x, y]]

FAddFrom[a \in Binary64, b \in Binary64, e \in Int] ==
    FAddAt[a, BigShl[a.m, a.e - e], b, BigShl[b.m, b.e - e], e]

FAdd[a \in Binary64, b \in Binary64] ==
    IF a.m = <<>> /\ b.m = <<>> THEN FZero(a.neg /\ b.neg)
    ELSE IF a.m = <<>> THEN b
    ELSE IF b.m = <<>> THEN a
    ELSE FAddFrom[a, b, IF a.e < b.e THEN a.e ELSE b.e]

FMul[a \in Binary64, b \in Binary64] ==
    IF a.m = <<>> \/ b.m = <<>> THEN FZero(a.neg # b.neg)
    ELSE RoundBig[a.neg # b.neg, BigMul[a.m, b.m], FALSE, a.e + b.e]

\* b is not a zero
FDiv[a \in Binary64, b \in Binary64] == RoundRat[a.neg # b.neg, a.m, b.m, a.e - b.e]

\* int(a): truncation towards zero
FTruncMag[a \in Binary64] ==
    IF a.e >= 0 THEN BigToInt[BigShl[a.m, a.e]] ELSE BigToInt[BigShr[a.m, 0 - a.e]]

FTrunc[a \in Binary64] ==
    IF a.m = <<>> THEN 0 ELSE IF a.neg THEN 0 - FTruncMag[a] ELSE FTruncMag[a]

(***************************************************************************)
(* Characters and strings                                                  *)
(***************************************************************************)
Digits == "0123456789"

CharAt(s, i) == SubSeq(s, i, i)

DigitChar(d) == CharAt(Digits, d + 1)

IsDigit[c \in STRING] == \E d \in 0..9 : DigitChar(d) = c

DigitVal[c \in STRING] == CHOOSE d \in 0..9 : DigitChar(d) = c

IntToStr[n \in Nat] ==
    IF n < 10 THEN DigitChar(n) ELSE IntToStr[n \div 10] \o DigitChar(n % 10)

SmallQuotRem == [q : Nats, r : Nat]

BigToStrFrom[d \in SmallQuotRem] ==
    IF d.q = <<>> THEN DigitChar(d.r)
    ELSE BigToStrFrom[BigDivSmall[d.q, 10]] \o DigitChar(d.r)

BigToStr[a \in Nats] == BigToStrFrom[BigDivSmall[a, 10]]

CharZeros[n \in Int] == IF n <= 0 THEN "" ELSE "0" \o CharZeros[n - 1]

\* the digits ds of a number scaled by 10^p, as sign, integer part, fraction
FPoint[neg \in BOOLEAN, ds \in STRING, p \in Nat] ==
    (IF neg THEN "-" ELSE "") \o SubSeq(ds, 1, Len(ds) - p)
        \o (IF p > 0 THEN "." \o SubSeq(ds, Len(ds) - p + 1, Len(ds)) ELSE "")

FPadded[neg \in BOOLEAN, ds \in STRING, p \in Nat] ==
    FPoint[neg, CharZeros[p + 1 - Len(ds)] \o ds, p]

FScaled[neg \in BOOLEAN, n \in Nats, e \in Int, p \in Nat] ==
    FPadded[neg, BigToStr[IF e >= 0 THEN BigShl[n, e] ELSE BigRoundShr[n, 0 - e, FALSE]], p]

\* format(a, '.<p>f'): the exact value rounded half-even to p decimals
FFormat[a \in Binary64, p \in Nat] == FScaled[a.neg, BigMul[a.m, BigPow10[p]], a.e, p]

\* the text accepted by float() among the strings over "-", "." and digits:
\* an optional "-", then digits with at most one "." and at least one digit
AllDigits[s \in STRING] == s = "" \/ (IsDigit[CharAt(s, 1)] /\ AllDigits[Tail(s)])

Unsigned[s \in STRING] == IF s # "" /\ CharAt(s, 1) = "-" THEN Tail(s) ELSE s

DotPos[s \in STRING] ==
    IF \E i \in 1..Len(s) : CharAt(s, i) = "."
    THEN CHOOSE i \in 1..Len(s) :
            CharAt(s, i) = "." /\ \A j \in 1..(i - 1) : CharAt(s, j) # "."
    ELSE 0

TextParts == [int : STRING, frac : STRING]

CutAt[s \in STRING, dot \in Nat] ==
    IF dot = 0 THEN [int |-> s, frac |-> ""]
    ELSE [int |-> SubSeq(s, 1, dot - 1), frac |-> SubSeq(s, dot + 1, Len(s))]

\* the digits before and after the first "." of s without its sign
Parts[s \in STRING] == CutAt[Unsigned[s], DotPos[Unsigned[s]]]

IsFloatParts[u \in TextParts] ==
    AllDigits[u.int] /\ AllDigits[u.frac] /\ Len(u.int) + Len(u.frac) > 0

IsFloatText[s \in STRING] == IsFloatParts[Parts[s]]

BigFromDigits[s \in STRING, acc \in Nats] ==
    IF s = "" THEN acc
    ELSE BigFromDigits[Tail(s), BigMulSmall[acc, 10, DigitVal[CharAt(s, 1)]]]

FParseParts[neg \in BOOLEAN, u \in TextParts] ==
    RoundRat[neg, BigFromDigits[u.int \o u.frac, <<>>], BigPow10[Len(u.frac)], 0]

\* float(s) for a text s that float() accepts
FParse[s \in STRING] == FParseParts[s # "" /\ CharAt(s, 1) = "-", Parts[s]]

StartsWith[s \in STRING, p \in STRING] == Len(s) >= Len(p) /\ SubSeq(s, 1, Len(p)) = p

\* p in s
Contains[s \in STRING, p \in STRING] ==
    \E i \in 1..(Len(s) - Len(p) + 1) : SubSeq(s, i, i + Len(p) - 1) = p

\* the character class [-\d.]
IsNumChar[c \in STRING] == c = "-" \/ c = "." \/ IsDigit[c]

\* last index of the longest run of [-\d.] characters that starts at i
RunEnd[s \in STRING, i \in Nat] ==
    IF i < Len(s) /\ IsNumChar[CharAt(s, i + 1)] THEN RunEnd[s, i + 1] ELSE i

\* the indices of s where letter is followed by a character of [-\d.]
TokenStarts[s \in STRING, letter \in STRING] ==
    {i \in 1..(Len(s) - 1) : CharAt(s, i) = letter /\ IsNumChar[CharAt(s, i + 1)]}

Least[S \in SUBSET Nat] == IF S = {} THEN 0 ELSE CHOOSE i \in S : \A j \in S : i <= j

\* re.search(letter + r'([-\d.]+)', s): index of the letter of the first
\* match, 0 when there is none
SearchToken[s \in STRING, letter \in STRING] == Least[TokenStarts[s, letter]]

\* group(1) of the match at index i
TokenAt[s \in STRING, i \in Nat] == SubSeq(s, i + 1, RunEnd[s, i + 1])

\* re.sub(letter + r'[-\d.]+', repl, s) from index i on: every match replaced
SubTokens[s \in STRING, letter \in STRING, repl \in STRING, i \in Nat] ==
    IF i > Len(s) THEN ""
    ELSE IF CharAt(s, i) = letter /\ i < Len(s) /\ IsNumChar[CharAt(s, i + 1)]
    THEN repl \o SubTokens[s, letter, repl, RunEnd[s, i + 1] + 1]
    ELSE CharAt(s, i) \o SubTokens[s, letter, repl, i + 1]

IsSpace[c \in STRING] == c \in {" ", "\n", "\t", "\r"}

\* str.strip()
Strip[s \in STRING] ==
    IF s = "" THEN s
    ELSE IF IsSpace[CharAt(s, 1)] THEN Strip[Tail(s)]
    ELSE IF IsSpace[CharAt(s, Len(s))] THEN Strip[SubSeq(s, 1, Len(s) - 1)]
    ELSE s

(***************************************************************************)
(* brocklayers.py                                                          *)
(***************************************************************************)
MIN_LAYER_HEIGHT == FParse["0.15"]
MAX_LAYER_HEIGHT == FParse["0.3"]
MIN_LINE_WIDTH == FParse["0.4"]
MAX_LINE_WIDTH == FParse["0.5"]

\* a variant with the two parities exchanged
calculate_layer_settings_swapped(layer_number, total_layers) ==
    IF layer_number % 2 = 1
    THEN [layer_height |-> MAX_LAYER_HEIGHT, line_width |-> MIN_LINE_WIDTH]
    ELSE [layer_height |-> MIN_LAYER_HEIGHT, line_width |-> MAX_LINE_WIDTH]

calculate_layer_settings(layer_number, total_layers) ==
    IF layer_number % 2 = 0
    THEN [layer_height |-> MAX_LAYER_HEIGHT, line_width |-> MIN_LINE_WIDTH]
    ELSE [layer_height |-> MIN_LAYER_HEIGHT, line_width |-> MAX_LINE_WIDTH]

\* the literals 0.5 of line 56 and 0.4 of line 120
Half == FParse["0.5"]
DefaultLineWidth == FParse["0.4"]

\* a variant that takes a line with an X for a motion line
IsLayerChange_without_x(line) == StartsWith[line, "G1 Z"] /\ ~Contains[line, "X"]

IsLayerChange(line) == StartsWith[line, "G1 Z"]

IsExternalMarker(line) ==
    Contains[line, ";TYPE:External perimeter"] \/ Contains[line, ";TYPE:Outer wall"]

IsInternalMarker(line) ==
    Contains[line, ";TYPE:Perimeter"] \/ Contains[line, ";TYPE:Inner wall"]

IsTypeMarker(line) == Contains[line, ";TYPE:"]

\* a variant that knows only the marker names "Outer wall" and "Inner wall"
MarkedType_walls(line, ptype) ==
    IF Contains[line, ";TYPE:Outer wall"] THEN "external"
    ELSE IF Contains[line, ";TYPE:Inner wall"] THEN "internal"
    ELSE IF IsTypeMarker(line) THEN "None"
    ELSE ptype

\* a variant without the reset of line 91 for the other markers
MarkedType_no_reset(line, ptype) ==
    IF IsExternalMarker(line) THEN "external"
    ELSE IF IsInternalMarker(line) THEN "internal"
    ELSE ptype

\* perimeter_type after the marker tests of lines 83-93
MarkedType(line, ptype) ==
    IF IsExternalMarker(line) THEN "external"
    ELSE IF IsInternalMarker(line) THEN "internal"
    ELSE IF IsTypeMarker(line) THEN "None"
    ELSE ptype

\* a variant that asks for an E followed by a number
IsMotion_with_number(line) ==
    StartsWith[line, "G1"] /\ Contains[line, "X"] /\ Contains[line, "Y"]
        /\ SearchToken[line, "E"] # 0

\* a variant that leaves alone the lines that already carry a comment
IsMotion_uncommented(line) ==
    StartsWith[line, "G1"] /\ Contains[line, "X"] /\ Contains[line, "Y"]
        /\ Contains[line, "E"] /\ ~Contains[line, ";"]

\* the line part of the condition of line 96
IsMotion(line) ==
    StartsWith[line, "G1"] /\ Contains[line, "X"] /\ Contains[line, "Y"]
        /\ Contains[line, "E"]

\* a variant that writes the Z move as a rapid move
ZLine_rapid(k, z, shift, settings) ==
    IF k % 2 = 1
    THEN "G0 Z" \o FFormat[FAdd[z, FMul[shift, settings.layer_height]], 3]
            \o " ; Shifted Z for block #" \o IntToStr[k] \o "\n"
    ELSE "G0 Z" \o FFormat[z, 3] \o " ; Reset Z for block #" \o IntToStr[k] \o "\n"

\* a variant that shifts the even blocks instead of the odd ones
ZLine_even_shifted(k, z, shift, settings) ==
    IF k % 2 = 0
    THEN "G1 Z" \o FFormat[FAdd[z, FMul[shift, settings.layer_height]], 3]
            \o " ; Shifted Z for block #" \o IntToStr[k] \o "\n"
    ELSE "G1 Z" \o FFormat[z, 3] \o " ; Reset Z for block #" \o IntToStr[k] \o "\n"

\* the line inserted by lines 108-114 for block number k
ZLine(k, z, shift, settings) ==
    IF k % 2 = 1
    THEN "G1 Z" \o FFormat[FAdd[z, FMul[shift, settings.layer_height]], 3]
            \o " ; Shifted Z for block #" \o IntToStr[k] \o "\n"
    ELSE "G1 Z" \o FFormat[z, 3] \o " ; Reset Z for block #" \o IntToStr[k] \o "\n"

\* a variant that keeps the E value of the slicer
NewE_unscaled(e_value, settings, extrusion_multiplier) == e_value

\* a variant that applies the extrusion multiplier
NewE_multiplied(e_value, settings, extrusion_multiplier) ==
    FMul[FMul[e_value, FDiv[settings.line_width, DefaultLineWidth]],
         extrusion_multiplier]

\* new_e_value of line 120, computed where the argument extrusion_multiplier
\* of process_gcode is in scope
NewE(e_value, settings, extrusion_multiplier) ==
    FMul[e_value, FDiv[settings.line_width, DefaultLineWidth]]

\* a variant that keeps the new E token and the comment only
ELine_token_only(line, new_e_value, k) ==
    "E" \o FFormat[new_e_value, 5]
        \o " ; Adjusted E for layer settings, block #" \o IntToStr[k] \o "\n"

\* the motion line after lines 122-123
ELine(line, new_e_value, k) ==
    Strip[SubTokens[line, "E", "E" \o FFormat[new_e_value, 5], 1]]
        \o " ; Adjusted E for layer settings, block #" \o IntToStr[k] \o "\n"

\* layer_settings before line 104 binds it; it is not read before
Unbound == [layer_height |-> FZero(FALSE), line_width |-> FZero(FALSE)]

\* the locals of process_gcode that the loop of lines 69-128 reads and writes
State0 ==
    [ current_layer |-> 0,
      current_z |-> FZero(FALSE),
      perimeter_type |-> "None",
      perimeter_block_count |-> 0,
      inside_perimeter_block |-> FALSE,
      layer_settings |-> Unbound,
      modified_lines |-> <<>>,
      inserted |-> {},
      raised |-> FALSE ]

\* a variant that starts a new layer on every line that starts with "G1 Z"
LayerChange_always_reset(s, line, layer_height) ==
    LET z_match == SearchToken[line, "Z"]
        text == TokenAt[line, z_match]
    IN  IF z_match = 0
        THEN [s EXCEPT !.perimeter_block_count = 0,
                       !.modified_lines = Append(@, line)]
        ELSE IF ~IsFloatText[text]
        THEN [s EXCEPT !.raised = TRUE]
        ELSE [s EXCEPT !.current_z = FParse[text],
                       !.current_layer = FTrunc[FDiv[FParse[text], layer_height]],
                       !.perimeter_block_count = 0,
                       !.modified_lines = Append(@, line)]

\* a variant in which a new layer forgets the perimeter type
LayerChange_type_reset(s, line, layer_height) ==
    LET z_match == SearchToken[line, "Z"]
        text == TokenAt[line, z_match]
    IN  IF z_match = 0
        THEN [s EXCEPT !.modified_lines = Append(@, line)]
        ELSE IF ~IsFloatText[text]
        THEN [s EXCEPT !.raised = TRUE]
        ELSE [s EXCEPT !.current_z = FParse[text],
                       !.current_layer = FTrunc[FDiv[FParse[text], layer_height]],
                       !.perimeter_type = "None",
                       !.perimeter_block_count = 0,
                       !.modified_lines = Append(@, line)]

\* a variant that keeps the block count of the layer before
LayerChange_no_reset(s, line, layer_height) ==
    LET z_match == SearchToken[line, "Z"]
        text == TokenAt[line, z_match]
    IN  IF z_match = 0
        THEN [s EXCEPT !.modified_lines = Append(@, line)]
        ELSE IF ~IsFloatText[text]
        THEN [s EXCEPT !.raised = TRUE]
        ELSE [s EXCEPT !.current_z = FParse[text],
                       !.current_layer = FTrunc[FDiv[FParse[text], layer_height]],
                       !.modified_lines = Append(@, line)]

\* lines 71-80, for a line that starts with "G1 Z"; float() raises ValueError
\* on a matched text it does not accept
LayerChange(s, line, layer_height) ==
    LET z_match == SearchToken[line, "Z"]
        text == TokenAt[line, z_match]
    IN  IF z_match = 0
        THEN [s EXCEPT !.modified_lines = Append(@, line)]
        ELSE IF ~IsFloatText[text]
        THEN [s EXCEPT !.raised = TRUE]
        ELSE [s EXCEPT !.current_z = FParse[text],
                       !.current_layer = FTrunc[FDiv[FParse[text], layer_height]],
                       !.perimeter_block_count = 0,
                       !.modified_lines = Append(@, line)]

\* a variant without line 126: the block stays open
PerimeterBlock_left_open(s, line, z_shift, total_layers, extrusion_multiplier) ==
    LET k == s.perimeter_block_count + 1
        settings == calculate_layer_settings(s.current_layer, total_layers)
        e_match == SearchToken[line, "E"]
        text == TokenAt[line, e_match]
        raises == e_match # 0 /\ ~IsFloatText[text]
    IN  IF s.inside_perimeter_block
        THEN [s EXCEPT !.modified_lines = Append(@, line)]
        ELSE [s EXCEPT !.perimeter_block_count = k,
                       !.inside_perimeter_block = TRUE,
                       !.layer_settings = settings,
                       !.inserted = @ \cup {Len(s.modified_lines) + 1},
                       !.raised = raises,
                       !.modified_lines =
                           Append(@, ZLine(k, s.current_z, z_shift, settings))
                           \o (IF raises THEN <<>>
                               ELSE IF e_match = 0 THEN <<line>>
                               ELSE <<ELine(line,
                                            NewE(FParse[text], settings,
                                                 extrusion_multiplier), k)>>)]

\* lines 98-126, for a line that passed the test of line 96; float() raises
\* ValueError after the Z line has been appended
PerimeterBlock(s, line, z_shift, total_layers, extrusion_multiplier) ==
    LET k == s.perimeter_block_count + 1
        settings == calculate_layer_settings(s.current_layer, total_layers)
        e_match == SearchToken[line, "E"]
        text == TokenAt[line, e_match]
        raises == e_match # 0 /\ ~IsFloatText[text]
    IN  IF s.inside_perimeter_block
        THEN [s EXCEPT !.inside_perimeter_block = FALSE,
                       !.modified_lines = Append(@, line)]
        ELSE [s EXCEPT !.perimeter_block_count = k,
                       !.inside_perimeter_block = raises,
                       !.layer_settings = settings,
                       !.inserted = @ \cup {Len(s.modified_lines) + 1},
                       !.raised = raises,
                       !.modified_lines =
                           Append(@, ZLine(k, s.current_z, z_shift, settings))
                           \o (IF raises THEN <<>>
                               ELSE IF e_match = 0 THEN <<line>>
                               ELSE <<ELine(line,
                                            NewE(FParse[text], settings,
                                                 extrusion_multiplier), k)>>)]

\* a variant in which an internal marker starts the block numbering afresh
PerimeterLine_restart(s, line, z_shift, total_layers, extrusion_multiplier) ==
    LET ptype == MarkedType(line, s.perimeter_type)
        inside == IF IsTypeMarker(line) THEN FALSE ELSE s.inside_perimeter_block
        count == IF IsInternalMarker(line) THEN 0 ELSE s.perimeter_block_count
        t == [s EXCEPT !.perimeter_type = ptype, !.inside_perimeter_block = inside,
                       !.perimeter_block_count = count]
    IN  IF ptype = "internal" /\ IsMotion(line)
        THEN PerimeterBlock(t, line, z_shift, total_layers, extrusion_multiplier)
        ELSE [t EXCEPT !.modified_lines = Append(@, line)]

\* lines 83-128, for a line that does not start with "G1 Z"
PerimeterLine(s, line, z_shift, total_layers, extrusion_multiplier) ==
    LET ptype == MarkedType(line, s.perimeter_type)
        inside == IF IsTypeMarker(line) THEN FALSE ELSE s.inside_perimeter_block
        t == [s EXCEPT !.perimeter_type = ptype, !.inside_perimeter_block = inside]
    IN  IF ptype = "internal" /\ IsMotion(line)
        THEN PerimeterBlock(t, line, z_shift, total_layers, extrusion_multiplier)
        ELSE [t EXCEPT !.modified_lines = Append(@, line)]

\* one iteration of the loop of line 69
LoopBody(s, line, layer_height, z_shift, total_layers, extrusion_multiplier) ==
    IF IsLayerChange(line) THEN LayerChange(s, line, layer_height)
    ELSE PerimeterLine(s, line, z_shift, total_layers, extrusion_multiplier)

\* line 65
CountLayers(input) == Cardinality({i \in 1..Len(input) : IsLayerChange(input[i])})

\* the loop from line i of the input on
RECURSIVE Loop(_, _, _, _, _, _, _)
Loop(s, input, i, layer_height, z_shift, total_layers, extrusion_multiplier) ==
    IF i > Len(input) \/ s.raised THEN s
    ELSE Loop(LoopBody(s, input[i], layer_height, z_shift, total_layers,
                       extrusion_multiplier),
              input, i + 1, layer_height, z_shift, total_layers, extrusion_multiplier)

\* lines 50-128: the locals when the loop ends or raises
process_gcode(input, layer_height, extrusion_multiplier) ==
    Loop(State0, input, 1, layer_height, FMul[layer_height, Half],
         CountLayers(input), extrusion_multiplier)

(***************************************************************************)
(* The files and arguments the program is run on                           *)
(***************************************************************************)
MaxLines == 4
MaxRuns == 2

\* layer changes (well formed, without a number, with a malformed number),
\* type markers, motion lines (well formed, without a number, malformed)
Catalog ==
    { "G1 Z0.200\n", "G1 Z2.400\n", "G1 Z\n", "G1 Z.\n",
      ";TYPE:Perimeter\n", ";TYPE:External perimeter\n",
      "G1 X1 Y1 E1.23456\n", "G1 X10 Y10 E\n", "G1 X1 Y1 E1.2.3\n" }

\* the lines of the files that are rewritten more than once
CatalogAgain ==
    { "G1 Z0.200\n", ";TYPE:Perimeter\n", ";TYPE:External perimeter\n",
      "G1 X1 Y1 E1.23456\n", "G1 X10 Y10 E\n" }

FilesOf(catalog, n) == UNION {[1..m -> catalog] : m \in 0..n}

LayerHeightArgs == {"0.2", "0.3"}
ExtrusionMultiplierArgs == {"1", "1.5"}

VARIABLES
    file,                    \* the lines of the file named by input_file
    argv,                    \* the texts of -layerHeight and -extrusionMultiplier
    run,                     \* number of this invocation of the program
    pc,                      \* "main", "loop", "exit" or "ValueError"
    layer_height, extrusion_multiplier, z_shift,
    lines, total_layers, idx,
    current_layer, current_z, perimeter_type,
    perimeter_block_count, inside_perimeter_block, layer_settings,
    modified_lines,
    inserted,                \* indices of modified_lines appended by lines 111 and 114
    history                  \* what each finished invocation read and wrote

vars == <<file, argv, run, pc, layer_height, extrusion_multiplier, z_shift,
          lines, total_layers, idx, current_layer, current_z, perimeter_type,
          perimeter_block_count, inside_perimeter_block, layer_settings,
          modified_lines, inserted, history>>

scan == <<current_layer, current_z, perimeter_type, perimeter_block_count,
          inside_perimeter_block, layer_settings, modified_lines, inserted>>

State ==
    [ current_layer |-> current_layer,
      current_z |-> current_z,
      perimeter_type |-> perimeter_type,
      perimeter_block_count |-> perimeter_block_count,
      inside_perimeter_block |-> inside_perimeter_block,
      layer_settings |-> layer_settings,
      modified_lines |-> modified_lines,
      inserted |-> inserted,
      raised |-> FALSE ]

SetLocals(s) ==
    /\ current_layer' = s.current_layer
    /\ current_z' = s.current_z
    /\ perimeter_type' = s.perimeter_type
    /\ perimeter_block_count' = s.perimeter_block_count
    /\ inside_perimeter_block' = s.inside_perimeter_block
    /\ layer_settings' = s.layer_settings
    /\ modified_lines' = s.modified_lines
    /\ inserted' = s.inserted

\* the loop goes on with the locals s, or the exception leaves the program
Becomes(s) ==
    /\ SetLocals(s)
    /\ pc' = IF s.raised THEN "ValueError" ELSE "loop"
    /\ idx' = IF s.raised THEN idx ELSE idx + 1

InitFrom(files, heights, multipliers) ==
    /\ file \in files
    /\ argv \in [layerHeight : heights, extrusionMultiplier : multipliers]
    /\ run = 1
    /\ pc = "main"
    /\ layer_height = FZero(FALSE)
    /\ extrusion_multiplier = FZero(FALSE)
    /\ z_shift = FZero(FALSE)
    /\ lines = <<>>
    /\ total_layers = 0
    /\ idx = 1
    /\ current_layer = 0
    /\ current_z = FZero(FALSE)
    /\ perimeter_type = "None"
    /\ perimeter_block_count = 0
    /\ inside_perimeter_block = FALSE
    /\ layer_settings = Unbound
    /\ modified_lines = <<>>
    /\ inserted = {}
    /\ history = <<>>

Init == InitFrom(FilesOf(Catalog, MaxLines), LayerHeightArgs, {"1"})

\* lines 138-149 and 50-68: the arguments are parsed, the file is read
Main ==
    /\ pc = "main"
    /\ layer_height' = FParse[argv.layerHeight]
    /\ extrusion_multiplier' = FParse[argv.extrusionMultiplier]
    /\ z_shift' = FMul[layer_height', Half]
    /\ lines' = file
    /\ total_layers' = CountLayers(file)
    /\ SetLocals(State0)
    /\ idx' = 1
    /\ pc' = "loop"
    /\ UNCHANGED <<file, argv, run, history>>

\* lines 69-80: the next line is a layer change
LayerChangeLine ==
    /\ pc = "loop"
    /\ idx <= Len(lines)
    /\ IsLayerChange(lines[idx])
    /\ \E s \in {LayerChange(State, lines[idx], layer_height)} : Becomes(s)
    /\ UNCHANGED <<file, argv, run, layer_height, extrusion_multiplier, z_shift,
                   lines, total_layers, history>>

\* lines 69 and 83-128: the next line is no layer change
ScanLine ==
    /\ pc = "loop"
    /\ idx <= Len(lines)
    /\ ~IsLayerChange(lines[idx])
    /\ \E s \in {PerimeterLine(State, lines[idx], z_shift, total_layers,
                               extrusion_multiplier)} : Becomes(s)
    /\ UNCHANGED <<file, argv, run, layer_height, extrusion_multiplier, z_shift,
                   lines, total_layers, history>>

\* lines 131-135
WriteFile ==
    /\ pc = "loop"
    /\ idx > Len(lines)
    /\ file' = modified_lines
    /\ history' = Append(history, [input |-> lines, output |-> modified_lines,
                                   inserted |-> inserted])
    /\ pc' = "exit"
    /\ UNCHANGED <<argv, run, layer_height, extrusion_multiplier, z_shift, lines,
                   total_layers, idx, scan>>

\* the program is started again on the file it has rewritten
Rerun ==
    /\ pc = "exit"
    /\ run < MaxRuns
    /\ run' = run + 1
    /\ pc' = "main"
    /\ UNCHANGED <<file, argv, layer_height, extrusion_multiplier, z_shift, lines,
                   total_layers, idx, scan, history>>

Next == Main \/ LayerChangeLine \/ ScanLine \/ WriteFile

Spec == Init /\ [][Next]_vars

\* the program run MaxRuns times on one file, with either multiplier
InitAgain == InitFrom(FilesOf(CatalogAgain, MaxLines), LayerHeightArgs,
                      ExtrusionMultiplierArgs)

NextAgain == Main \/ LayerChangeLine \/ ScanLine \/ WriteFile \/ Rerun

SpecAgain == InitAgain /\ [][NextAgain]_vars

\* lines for the marker and layer-change rules: a negative Z, a layer change
\* that also carries X, Y, E and a marker, markers of every kind, and a
\* motion line that carries a marker itself
CatalogMore ==
    { "G1 Z0.200\n", "G1 Z\n", "G1 Z-0.500\n",
      "G1 Z0.400 X1 Y1 E1.00000 ;TYPE:Perimeter\n",
      ";TYPE:Perimeter\n", ";TYPE:Inner wall\n", ";TYPE:External perimeter\n",
      ";TYPE:Infill\n",
      "G1 X1 Y1 E1.23456\n", "G1 X5 Y5 E1.00000 ;TYPE:Perimeter\n" }

InitMore == InitFrom(FilesOf(CatalogMore, MaxLines), {"0.2"}, {"1"})

SpecMore == InitMore /\ [][Next]_vars

(***************************************************************************)
(* The scan as the specification describes it, read off the input lines.   *)
(* Values are exact decimals: a text with at most five fraction digits is  *)
(* the integer Micro(text) in units of 10^-5.                              *)
(***************************************************************************)
MaxLayer == 12

Abs(x) == IF x < 0 THEN 0 - x ELSE x

Max(S) == CHOOSE x \in S : \A y \in S : y <= x

DecVal[s \in STRING] ==
    IF s = "" THEN 0
    ELSE 10 * DecVal[SubSeq(s, 1, Len(s) - 1)] + DigitVal[CharAt(s, Len(s))]

Micro(text) ==
    LET u == Parts[text]
        mag == DecVal[u.int] * 100000 + DecVal[u.frac \o CharZeros[5 - Len(u.frac)]]
    IN  IF CharAt(text, 1) = "-" THEN 0 - mag ELSE mag

RTrim[s \in STRING] ==
    IF s # "" /\ IsSpace[CharAt(s, Len(s))] THEN RTrim[SubSeq(s, 1, Len(s) - 1)] ELSE s

\* the loop has handled the lines 1 .. Handled without raising
Scanning == pc \in {"loop", "exit"}
Handled == idx - 1

StartsLayer(i) == StartsWith[lines[i], "G1 Z"]

\* a layer-change line on which a Z token is found
ParsedLayer(i) == StartsLayer(i) /\ SearchToken[lines[i], "Z"] # 0

\* the type markers met up to line i
Markers(i) == {m \in 1..i : ~StartsLayer(m) /\ Contains[lines[m], ";TYPE:"]}

NamesExternal(line) ==
    Contains[line, ";TYPE:External perimeter"] \/ Contains[line, ";TYPE:Outer wall"]

NamesInternal(line) ==
    Contains[line, ";TYPE:Perimeter"] \/ Contains[line, ";TYPE:Inner wall"]

\* the most recent type marker up to line i is an internal-perimeter marker
Internal(i) ==
    /\ Markers(i) # {}
    /\ ~NamesExternal(lines[Max(Markers(i))])
    /\ NamesInternal(lines[Max(Markers(i))])

\* line i is a qualifying motion line
Qualifying(i) ==
    /\ ~StartsLayer(i)
    /\ Internal(i)
    /\ StartsWith[lines[i], "G1"]
    /\ Contains[lines[i], "X"] /\ Contains[lines[i], "Y"] /\ Contains[lines[i], "E"]

Blocks(n) == Cardinality({i \in 1..n : Qualifying(i)})

\* the last layer-change line before line j whose Z was parsed, 0 if none
LastParsed(j) ==
    IF \E p \in 1..(j - 1) : ParsedLayer(p)
    THEN Max({p \in 1..(j - 1) : ParsedLayer(p)})
    ELSE 0

\* the most recent layer-change line before line j exists and its Z was parsed
AfterParsedLayer(j) ==
    /\ \E p \in 1..(j - 1) : StartsLayer(p)
    /\ ParsedLayer(Max({p \in 1..(j - 1) : StartsLayer(p)}))

\* the number of line j among the qualifying lines since that layer change
BlockNumber(j) == Cardinality({i \in (LastParsed(j) + 1)..j : Qualifying(i)})

\* current_z at line j, in units of 10^-5
ZMicro(j) ==
    IF LastParsed(j) = 0 THEN 0
    ELSE Micro(TokenAt[lines[LastParsed(j)], SearchToken[lines[LastParsed(j)], "Z"]])

\* settings(current_layer): layer_height in 1/100, line_width in 1/10
SettingCenti == IF current_layer % 2 = 0 THEN 30 ELSE 15
WidthTenths == IF current_layer % 2 = 0 THEN 4 ELSE 5

\* the Z a block at line j is to carry, in units of 10^-8
BlockZ(j, k) ==
    ZMicro(j) * 1000
        + (IF k % 2 = 1 THEN Micro(argv.layerHeight) * 5 * SettingCenti ELSE 0)

\* out is a Z move whose three decimals are those of want / 10^8
CarriesZ(out, want) ==
    /\ StartsWith[out, "G1 Z"]
    /\ Len(out) > 4 /\ IsNumChar[CharAt(out, 5)]
    /\ IsFloatText[TokenAt[out, 4]]
    /\ Len(Parts[TokenAt[out, 4]].frac) = 3
    /\ Abs(Micro(TokenAt[out, 4]) * 1000 - want) <= 50000

\* out is line with its E token multiplied by w / 4 and written with five
\* decimals, and with a comment appended
IsRescaledBy(out, line, w) ==
    LET i == SearchToken[line, "E"]
        old == TokenAt[line, i]
        new == TokenAt[out, i]
    IN  /\ i # 0
        /\ Len(out) > i
        /\ SubSeq(out, 1, i) = SubSeq(line, 1, i)
        /\ IsNumChar[CharAt(out, i + 1)]
        /\ IsFloatText[new]
        /\ Len(Parts[new].frac) = 5
        /\ Abs(4 * Micro(new) - w * Micro(old)) <= 2
        /\ StartsWith[SubSeq(out, i + Len(new) + 1, Len(out)),
                      RTrim[SubSeq(line, i + Len(old) + 1, Len(line))] \o " ;"]
        /\ CharAt(out, Len(out)) = "\n"

\* the index in output of the i-th line that is not one of the synthetic lines
KeptIndex(output, synthetic, i) ==
    CHOOSE x \in (1..Len(output)) \ synthetic :
        Cardinality({y \in (1..Len(output)) \ synthetic : y < x}) = i - 1

\* the last line handled was a qualifying motion line
AfterQualifying == Scanning /\ Handled >= 1 /\ Qualifying(Handled)

LastOut == modified_lines[Len(modified_lines)]

\* a Z line for block number k of line j sits immediately before the last line
ZInsertedFor(j, k) ==
    /\ Len(modified_lines) >= 2
    /\ (Len(modified_lines) - 1) \in inserted
    /\ CarriesZ(modified_lines[Len(modified_lines) - 1], BlockZ(j, k))

(***************************************************************************)
(* The claims                                                              *)
(***************************************************************************)

\* C1: after a layer-change line whose Z was parsed, the k-th qualifying
\* motion line scanned before the next layer change gets block number k, and
\* a synthetic Z line is inserted immediately before it that carries, for odd
\* k, current_z + (nominal_layer_height * 0.5) * settings(current_layer)
\* .layer_height and, for even k, the unmodified current_z.
C1_BlockNumbering ==
    (AfterQualifying /\ AfterParsedLayer(Handled)) =>
        /\ perimeter_block_count = BlockNumber(Handled)
        /\ ZInsertedFor(Handled, BlockNumber(Handled))
        /\ \/ LastOut = lines[Handled]
           \/ IsRescaledBy(LastOut, lines[Handled], WidthTenths)

\* the second block of an odd layer has been opened
C1_Witness ==
    /\ AfterQualifying /\ AfterParsedLayer(Handled)
    /\ BlockNumber(Handled) = 2
    /\ current_layer % 2 = 1

NoLayerChange == \A i \in 1..Len(lines) : ~StartsLayer(i)

\* C2 as stated: for an input without a layer-change line no layer or
\* perimeter state ever changes during the scan and the output equals the
\* input.
C2_AsStated ==
    (Scanning /\ NoLayerChange) =>
        /\ current_layer = 0
        /\ current_z = FZero(FALSE)
        /\ perimeter_type = "None"
        /\ perimeter_block_count = 0
        /\ inside_perimeter_block = FALSE
        /\ (pc = "exit" => file = lines)

\* C2, amended: for an input without a layer-change line total_layers is 0
\* and current_layer and current_z keep their initial values 0 and 0.0, but
\* type markers and qualifying motion lines act as in any file: the block
\* count is the number of qualifying motion lines scanned, the output is one
\* line longer per block, and it equals the input exactly when no line
\* qualifies.
C2_NoLayerChange ==
    (Scanning /\ NoLayerChange) =>
        /\ total_layers = 0
        /\ current_layer = 0
        /\ current_z = FZero(FALSE)
        /\ perimeter_block_count = Blocks(Handled)
        /\ pc = "exit" =>
            /\ Len(file) = Len(lines) + Blocks(Len(lines))
            /\ (file = lines) <=> (Blocks(Len(lines)) = 0)

\* a file without layer changes has been rewritten into a different one
C2_Witness ==
    /\ pc = "exit" /\ NoLayerChange
    /\ Blocks(Len(lines)) = 2
    /\ file # lines

\* a layer-change line or a qualifying motion line with a matched Z or E
\* text that is no number
Malformed(i) ==
    \/ /\ ParsedLayer(i)
       /\ ~IsFloatText[TokenAt[lines[i], SearchToken[lines[i], "Z"]]]
    \/ /\ Qualifying(i)
       /\ SearchToken[lines[i], "E"] # 0
       /\ ~IsFloatText[TokenAt[lines[i], SearchToken[lines[i], "E"]]]

\* C3 as stated: the rewriter never aborts on a malformed line; a malformed
\* line is passed through unchanged and the scan goes on with the next line.
C3_NeverAborts ==
    /\ pc # "ValueError"
    /\ Scanning =>
        \A i \in 1..Handled :
            Malformed(i) => \E n \in 1..Len(modified_lines) : modified_lines[n] = lines[i]

\* the settings the specification gives the even and the odd layers
EvenPolicy == [layer_height |-> FParse["0.30"], line_width |-> FParse["0.40"]]
OddPolicy == [layer_height |-> FParse["0.15"], line_width |-> FParse["0.50"]]

PolicyOf(n) == IF n % 2 = 0 THEN EvenPolicy ELSE OddPolicy

\* calculate_layer_settings on every layer index up to MaxLayer on either side
\* of 0 and every total-layer count of a file
PolicyTable ==
    \A n \in (0 - MaxLayer)..MaxLayer : \A t \in 0..(MaxLines + 1) :
        calculate_layer_settings(n, t) = PolicyOf(n)

\* C4: calculate_layer_settings returns layer_height 0.30 and line_width 0.40
\* for every even layer index, 0.15 and 0.50 for every odd one, whatever the
\* total-layer count: so for the settings a block is given, and so for every
\* index of PolicyTable.
C4_SettingsByParity ==
    /\ AfterQualifying =>
        /\ layer_settings = PolicyOf(current_layer)
        /\ \A t \in 0..(MaxLines + 1) :
              calculate_layer_settings(current_layer, t) = layer_settings
    /\ PolicyTable

\* a block of an odd layer in a file with two layer changes
C4_Witness ==
    /\ AfterQualifying
    /\ current_layer % 2 = 1
    /\ total_layers = 2
    /\ layer_settings.line_width = FParse["0.5"]

\* C5 as stated: on a layer-change line with a parseable Z, current_z becomes
\* that value and current_layer becomes floor(current_z /
\* nominal_layer_height); "G1 Z2.400" with 0.2 gives layer 12 and Z 2.4.
C5_LayerIsFloor ==
    (Scanning /\ Handled >= 1 /\ ParsedLayer(Handled)) =>
        LET text == TokenAt[lines[Handled], SearchToken[lines[Handled], "Z"]]
        IN  /\ current_z = FParse[text]
            /\ current_layer = Micro(text) \div Micro(argv.layerHeight)
            /\ (text = "2.400" /\ argv.layerHeight = "0.2") =>
                  current_layer = 12 /\ current_z = FParse["2.4"]

\* C6: a qualifying motion line with a parseable E token gets the token
\* replaced by old_e * (settings(current_layer).line_width / 0.4) with five
\* decimals and a comment appended, whatever the parity of its block;
\* E1.23456 under line_width 0.5 becomes E1.54320.
C6_ERescaled ==
    (AfterQualifying /\ SearchToken[lines[Handled], "E"] # 0) =>
        /\ IsRescaledBy(LastOut, lines[Handled], WidthTenths)
        /\ (lines[Handled] = "G1 X1 Y1 E1.23456\n" /\ WidthTenths = 5) =>
              StartsWith[LastOut, "G1 X1 Y1 E1.54320 ;"]

\* E1.23456 has become E1.54320 in an even block
C6_Witness ==
    /\ AfterQualifying
    /\ perimeter_block_count = 2
    /\ lines[Handled] = "G1 X1 Y1 E1.23456\n"
    /\ StartsWith[LastOut, "G1 X1 Y1 E1.54320 ;"]

\* C7: a qualifying motion line that carries the letter E but no numeric E
\* token still opens a block: the block count is incremented, the synthetic
\* Z line is inserted according to the parity of the block, and the motion
\* line is appended unmodified.
C7_NoNumberStillOpens ==
    (AfterQualifying /\ SearchToken[lines[Handled], "E"] = 0) =>
        /\ perimeter_block_count = BlockNumber(Handled)
        /\ perimeter_block_count >= 1
        /\ ZInsertedFor(Handled, perimeter_block_count)
        /\ LastOut = lines[Handled]

\* "G1 X10 Y10 E" has opened the second block of a layer
C7_Witness ==
    /\ AfterQualifying
    /\ lines[Handled] = "G1 X10 Y10 E\n"
    /\ perimeter_block_count = 2
    /\ LastOut = "G1 X10 Y10 E\n"

\* C8: no input line is dropped or reordered: the output has the length of
\* the input plus the number of blocks opened, and without the synthetic Z
\* lines its i-th line is the i-th input line, unmodified or, only for a
\* qualifying motion line, with its E token rewritten and a comment appended.
C8_NothingDropped ==
    Scanning =>
        /\ Len(modified_lines) = Handled + Cardinality(inserted)
        /\ Cardinality(inserted) = Blocks(Handled)
        /\ \A i \in 1..Handled :
              LET out == modified_lines[KeptIndex(modified_lines, inserted, i)]
              IN  \/ out = lines[i]
                  \/ /\ Qualifying(i)
                     /\ \E w \in {4, 5} : IsRescaledBy(out, lines[i], w)
        /\ pc = "exit" => (file = modified_lines /\ Len(file) >= Len(lines))

\* a file has been written with two inserted lines and a rewritten line
C8_Witness ==
    /\ pc = "exit"
    /\ Cardinality(inserted) = 2
    /\ \E i \in 1..Len(lines) :
          modified_lines[KeptIndex(modified_lines, inserted, i)] # lines[i]

\* C9: the rewriter is not idempotent: when a run has opened a block, the
\* next run on its output writes a different output: before every motion line
\* the first run has rewritten a Z line is inserted again, and its E token
\* is rescaled again.
C9_NotIdempotent ==
    \A r \in 2..Len(history) :
        /\ history[r].input = history[r - 1].output
        /\ history[r - 1].inserted # {} =>
            /\ history[r].output # history[r].input
            /\ Cardinality(history[r].inserted) = Cardinality(history[r - 1].inserted)
            /\ \A i \in history[r - 1].inserted :
                  LET at == KeptIndex(history[r].output, history[r].inserted, i + 1)
                      was == history[r].input[i + 1]
                  IN  /\ (at - 1) \in history[r].inserted
                      /\ StartsWith[history[r].output[at - 1], "G1 Z"]
                      /\ SearchToken[was, "E"] # 0 =>
                            \E w \in {4, 5} :
                                IsRescaledBy(history[r].output[at], was, w)

\* a file in which a block was opened has been rewritten twice
C9_Witness ==
    /\ Len(history) = 2
    /\ Cardinality(history[1].inserted) = 2
    /\ \E n \in 1..Len(history[2].output) :
          Contains[history[2].output[n], "E1.92900"]

AtLine == pc = "loop" /\ idx <= Len(lines)

\* the step handles line idx without raising
Handles == AtLine /\ pc' = "loop"

\* a G1 line with X, Y and E that is no layer change
MotionText(line) ==
    /\ ~StartsWith[line, "G1 Z"]
    /\ StartsWith[line, "G1"]
    /\ Contains[line, "X"] /\ Contains[line, "Y"] /\ Contains[line, "E"]

\* the most recent type marker before line i is an internal-perimeter marker
InternalBefore(i) == i > 1 /\ Internal(i - 1)

\* the step appends line idx as it is and nothing else
PassesThrough ==
    /\ modified_lines' = Append(modified_lines, lines[idx])
    /\ inserted' = inserted

LastLayer(j) ==
    IF \E p \in 1..j : StartsLayer(p) THEN Max({p \in 1..j : StartsLayer(p)}) ELSE 0

\* C12 as stated: block_count is 0 immediately after every line that starts
\* with "G1 Z", and between two such lines it grows by exactly 1 per
\* qualifying motion line and never decreases.
C12_AsStated ==
    (Scanning /\ Handled >= 1) =>
        perimeter_block_count =
            Cardinality({i \in (LastLayer(Handled) + 1)..Handled : Qualifying(i)})

\* C12, amended: block_count is 0 immediately after every layer-change line
\* on which a Z number is found; a line that starts with "G1 Z" but carries
\* no Z number leaves it as it is; from one reset to the next it never
\* decreases and grows by exactly 1 per qualifying motion line.
C12_ResetWhenParsed ==
    (Scanning /\ Handled >= 1) =>
        perimeter_block_count =
            IF ParsedLayer(Handled) THEN 0 ELSE BlockNumber(Handled)

\* "G1 Z" without a number has been handled after a block, then a second
\* block was opened
C12_Witness ==
    /\ Scanning /\ Handled >= 4
    /\ lines[Handled - 1] = "G1 Z\n"
    /\ Qualifying(Handled)
    /\ perimeter_block_count = 2

\* C13: a layer-change line on which no Z-prefixed numeric token is found is
\* appended to the output unmodified and leaves current_z, current_layer,
\* block_count, perimeter_type and in_block unchanged.
C13_NoNumberNoChange ==
    [][(AtLine /\ StartsLayer(idx) /\ SearchToken[lines[idx], "Z"] = 0)
        => /\ pc' = "loop"
           /\ PassesThrough
           /\ UNCHANGED <<current_z, current_layer, perimeter_block_count,
                          perimeter_type, inside_perimeter_block>>]_vars

\* "G1 Z" without a number has been handled in the second layer, inside an
\* internal perimeter with a block open
C13_Witness ==
    /\ Scanning /\ Handled >= 4
    /\ lines[Handled] = "G1 Z\n"
    /\ LastOut = "G1 Z\n"
    /\ current_layer = 1
    /\ perimeter_type = "internal"
    /\ perimeter_block_count = 1

\* C14: first match wins: a line that starts with "G1 Z" and is handled is
\* appended to the output unmodified, with no synthetic line before it and
\* without opening a block, even when perimeter_type is internal and the line
\* also carries X, Y and E.
C14_LayerChangeFirst ==
    [][(Handles /\ StartsLayer(idx))
        => /\ PassesThrough
           /\ perimeter_block_count' \in {0, perimeter_block_count}
           /\ inside_perimeter_block' = FALSE]_vars

\* a layer change that carries X, Y, E and an internal marker has been
\* appended as it is, inside an internal perimeter
C14_Witness ==
    /\ Scanning /\ Handled >= 2
    /\ lines[Handled] = "G1 Z0.400 X1 Y1 E1.00000 ;TYPE:Perimeter\n"
    /\ lines[Handled - 1] = ";TYPE:Perimeter\n"
    /\ perimeter_type = "internal"
    /\ LastOut = lines[Handled]
    /\ inserted = {}

\* C15: in_block is true only while perimeter_type is internal, and it is
\* false after every line that has been processed: a block is opened and
\* closed on the same motion line, and a layer-change line or a type-marker
\* line leaves in_block false.
C15_BlockClosed ==
    /\ inside_perimeter_block => perimeter_type = "internal"
    /\ Scanning => ~inside_perimeter_block

\* the second block of an internal perimeter has been opened and closed
C15_Witness ==
    /\ AfterQualifying
    /\ perimeter_block_count = 2
    /\ perimeter_type = "internal"
    /\ ~inside_perimeter_block

\* C16 as stated: current_layer is a non-negative integer in every reachable
\* scan state, for every input, layer-change lines with a minus sign in the Z
\* value included.
C16_LayerNonNegative == current_layer \in Nat

\* C17 as stated: every line that contains ";TYPE:" is appended to the output
\* unmodified and no synthetic Z line is inserted for it: a marker line is
\* never also handled as a perimeter motion line.
C17_MarkerNeverMotion ==
    (Scanning /\ Handled >= 1 /\ Contains[lines[Handled], ";TYPE:"]) =>
        /\ LastOut = lines[Handled]
        /\ (Len(modified_lines) - 1) \notin inserted

\* C18: a layer-change line never changes perimeter_type, even if its text
\* contains a ";TYPE:" marker, so the internal-perimeter context set in one
\* layer persists into the next: a motion line that follows the layer change
\* is rewritten without a new marker.
C18_TypeSurvivesLayerChange ==
    [][/\ (Handles /\ StartsLayer(idx)) => perimeter_type' = perimeter_type
       /\ (Handles /\ idx > 1 /\ StartsLayer(idx - 1) /\ InternalBefore(idx)
              /\ MotionText(lines[idx]) /\ ~Contains[lines[idx], ";TYPE:"])
          => /\ perimeter_type' = "internal"
             /\ perimeter_block_count' = perimeter_block_count + 1
             /\ inserted' = inserted \cup {Len(modified_lines) + 1}]_vars

\* after an internal marker and a layer change with a Z, a motion line has
\* opened block 1 of the new layer
C18_Witness ==
    /\ Scanning /\ Handled >= 3
    /\ lines[Handled - 2] = ";TYPE:Perimeter\n"
    /\ lines[Handled - 1] = "G1 Z0.200\n"
    /\ lines[Handled] = "G1 X1 Y1 E1.23456\n"
    /\ perimeter_type = "internal"
    /\ perimeter_block_count = 1
    /\ (Len(modified_lines) - 1) \in inserted

SecondPass == run >= 2 /\ Scanning /\ Len(history) >= run - 1

\* line j of this run's input is a synthetic Z line of the run before
WasInserted(j) == j \in history[run - 1].inserted

\* C20: every synthetic Z line the rewriter emits has the form of a
\* layer-change line (it starts with "G1 Z" and its Z is parseable), so when
\* the output is scanned again each one resets block_count to 0 and replaces
\* current_z, and the motion line that follows it is block number 1 and gets
\* a shifted Z line, never an unshifted one.
C20_SyntheticIsLayerChange ==
    /\ Scanning =>
        \A n \in inserted :
            /\ StartsWith[modified_lines[n], "G1 Z"]
            /\ SearchToken[modified_lines[n], "Z"] = 4
            /\ IsFloatText[TokenAt[modified_lines[n], 4]]
    /\ (SecondPass /\ Handled >= 1 /\ WasInserted(Handled)) =>
        /\ perimeter_block_count = 0
        /\ current_z = FParse[TokenAt[lines[Handled], 4]]
    /\ (SecondPass /\ Handled >= 2 /\ WasInserted(Handled - 1)) =>
        /\ perimeter_block_count = 1
        /\ current_z = FParse[TokenAt[lines[Handled - 1], 4]]
        /\ ZInsertedFor(Handled, 1)
        /\ Contains[modified_lines[Len(modified_lines) - 1],
                    " ; Shifted Z for block #1\n"]

\* a motion line that was block 2 with the unshifted Z in the first pass is
\* block 1 with a shifted Z in the second
C20_Witness ==
    /\ SecondPass /\ Handled >= 2 /\ WasInserted(Handled - 1)
    /\ lines[Handled - 1] = "G1 Z0.200 ; Reset Z for block #2\n"
    /\ perimeter_block_count = 1
    /\ modified_lines[Len(modified_lines) - 1] = "G1 Z0.215 ; Shifted Z for block #1\n"
====
